---- MODULE Spec2Model ----
(***************************************************************************)
(* Model of s3_uploader.py: the readiness tracker (VideoFileHandler), the  *)
(* upload executor (S3Uploader.upload_file / verify_upload), the           *)
(* reconciliation scan (S3UploaderService.upload_existing_files) and the   *)
(* service loop (S3UploaderService.start_watching, main).                  *)
(*                                                                         *)
(* The service thread is a program counter `pc`; the watchdog observer     *)
(* thread delivers on_created / on_modified between any two steps of the   *)
(* service thread once the observer has been started.                      *)
(***************************************************************************)
EXTENDS Integers, Sequences, FiniteSets, TLC

\* ------------------------------------------------------------------ bounds
MaxTime == 3
MaxSize == 1
\* max_retries in the configuration file of the runs over several files
CfgMaxRetries == 1

\* ------------------------------------------------- configuration fallbacks
DefaultMaxRetries == 3
DefaultInitialRetryDelay == 5
DefaultFileAgeThreshold == 2
LoopSleepSeconds == 1

\* get_file_extensions: fallback '.mp4,.MP4', split on ',' and stripped
get_file_extensions == <<".mp4", ".MP4">>

\* no [upload] option in the configuration file: every fallback applies
DefaultConfig ==
    [max_retries |-> DefaultMaxRetries,
     initial_retry_delay |-> DefaultInitialRetryDelay,
     file_age_threshold |-> DefaultFileAgeThreshold]

\* a configuration file that sets max_retries
SmallConfig ==
    [max_retries |-> CfgMaxRetries,
     initial_retry_delay |-> DefaultInitialRetryDelay,
     file_age_threshold |-> DefaultFileAgeThreshold]

\* ------------------------------------------------------------------- paths
\* A path of the watched directory: its base name is dot? + stem + ext, where
\* ext is what os.path.splitext returns and dot says the name starts with '.'.
FileA == [stem |-> "a", ext |-> ".mp4", dot |-> FALSE]
FileB == [stem |-> "b", ext |-> ".MP4", dot |-> FALSE]
FileH == [stem |-> "h", ext |-> ".mp4", dot |-> TRUE]
FileN == [stem |-> "n", ext |-> ".txt", dot |-> FALSE]
Paths == {FileA, FileB, FileH, FileN}

Sizes == 0..MaxSize
\* os.path.exists(path) is False
Absent == -1

VARIABLES
    config,           \* S3UploaderConfig values read by the code
    args,             \* parsed command line: upload_existing, continue_watching
    now,              \* time.time(), in seconds; it advances while the
                      \* service thread sleeps
    disk,             \* local directory: path -> size, or Absent
    remote,           \* ContentLength of the object under the key of the
                      \* upload_file call in progress, Absent before its first put
    pending_files,    \* VideoFileHandler.pending_files, in dict insertion order
    observing,        \* the observer has been scheduled and started
    running,          \* S3UploaderService.running
    video_dir,        \* os.path.exists(video_dir)
    pc,               \* position of the service thread
    caller,           \* who called upload_file: "sweep", "existing", "direct"
    keys,             \* rest of list(self.pending_files.keys()) being iterated
    files_to_remove,  \* process_pending_files' local list
    video_files,      \* rest of upload_existing_files' glob list
    cur,              \* local_path of the upload_file call in progress
    attempt,          \* upload_file's loop variable
    result,           \* upload_file's return value
    success_count,
    failure_count,
    exit_status,      \* process exit status once pc = "exit"
    \* what the collaborators saw of the upload_file call in progress
    puts,             \* s3_client.upload_file invocations
    sleeps,           \* time.sleep(delay) arguments, in order
    log,              \* how each attempt so far ended, in order
    in_flight,        \* paths given to an upload_file call that has not returned
    \* what this sweep / this scan has done so far
    tasks,            \* paths handed to upload_file
    removes,          \* paths os.remove was called on
    reported,         \* paths for which "Failed to upload" was logged
    failed_any        \* "Failed to upload" was logged in this run

vars == <<config, args, video_dir, now, disk, remote, pending_files, observing,
          running, failed_any, pc, caller,
          keys, files_to_remove, video_files, cur, attempt, result,
          success_count, failure_count, exit_status, puts, sleeps, log,
          in_flight, tasks, removes, reported>>

\* the frame of an upload_file call and what its collaborators saw of it
call == <<cur, caller, attempt, result, remote, puts, sleeps, log, in_flight>>
\* what a sweep or a scan has done so far
done == <<tasks, removes, reported>>
\* the locals of process_pending_files and of upload_existing_files
sweep == <<keys, files_to_remove>>
scan == <<video_files, success_count, failure_count>>
\* what no handler writes after start-up
setup == <<config, args, video_dir>>

\* no path: the value of a local that is out of scope
NoPath == [stem |-> "", ext |-> "", dot |-> FALSE]

\* ---------------------------------------------------------- dict helpers
InPending(pf, p) == \E i \in 1..Len(pf) : pf[i].path = p

Timestamp(pf, p) == pf[CHOOSE i \in 1..Len(pf) : pf[i].path = p].ts

\* self.pending_files[file_path] = t  (an existing key keeps its position)
SetPending(pf, p, t) ==
    IF InPending(pf, p)
    THEN [i \in 1..Len(pf) |-> IF pf[i].path = p THEN [path |-> p, ts |-> t] ELSE pf[i]]
    ELSE Append(pf, [path |-> p, ts |-> t])

\* self.pending_files.pop(file_path, None)
PopPending(pf, p) == SelectSeq(pf, LAMBDA e : e.path # p)

\* an end of sweep that pops only the first path of files_to_remove
PopFirstOnly(pf, ps) == IF ps = <<>> THEN pf ELSE PopPending(pf, Head(ps))

RECURSIVE PopAll(_, _)
PopAll(pf, ps) == IF ps = <<>> THEN pf ELSE PopAll(PopPending(pf, Head(ps)), Tail(ps))

\* list(self.pending_files.keys())
PendingKeys(pf) == [i \in 1..Len(pf) |-> pf[i].path]

\* 2 ** n
RECURSIVE Pow2(_)
Pow2(n) == IF n = 0 THEN 1 ELSE 2 * Pow2(n - 1)

Range(s) == {s[i] : i \in 1..Len(s)}

\* ------------------------------------------------------ VideoFileHandler
\* os.path.splitext(file_path)[1] in self.config.get_file_extensions()
is_video_file(p) == p.ext \in Range(get_file_extensions)

\* an on_created without the is_video_file check
on_created_unfiltered(pf, p, is_directory, t) ==
    IF is_directory THEN pf ELSE SetPending(pf, p, t)

\* on_created: the registry after the event
on_created(pf, p, is_directory, t) ==
    IF is_directory THEN pf
    ELSE IF ~is_video_file(p) THEN pf
    ELSE SetPending(pf, p, t)

\* an on_modified that leaves the timestamp as it is
on_modified_no_reset(pf, p, is_directory, t) == pf

\* on_modified: the registry after the event
on_modified(pf, p, is_directory, t) ==
    IF is_directory THEN pf
    ELSE IF InPending(pf, p) THEN SetPending(pf, p, t)
    ELSE pf

\* is_file_ready at time t
is_file_ready(pf, p, t, threshold) ==
    IF ~InPending(pf, p) THEN FALSE
    ELSE t - Timestamp(pf, p) >= threshold

\* ------------------------------------------------------------ S3Uploader
\* a ClientError handler that sleeps after the last attempt too
RetriesLeftOffByOne(a, max_retries) == a <= max_retries

\* a ClientError handler that never retries
RetriesLeftNever(a, max_retries) == FALSE

\* upload_file, except ClientError: `if attempt < max_retries`
RetriesLeft(a, max_retries) == a < max_retries

\* a loop `for attempt in range(max_retries + 2)`
InRangeLong(a, max_retries) == a < max_retries + 2

\* a loop `for attempt in range(max_retries)`
InRangeShort(a, max_retries) == a < max_retries

\* upload_file: `for attempt in range(max_retries + 1)` reaches attempt a
InRange(a, max_retries) == a < max_retries + 1

\* a linear delay
BackoffDelayLinear(initial_delay, a) == initial_delay * (a + 1)

\* upload_file: delay = initial_delay * (2 ** attempt)
BackoffDelay(initial_delay, a) == initial_delay * Pow2(a)

\* a verify_upload that accepts any answer of head_object
SizesMatchAny(local_size, s3_size) == TRUE

\* verify_upload: local_size == s3_size
SizesMatch(local_size, s3_size) == local_size = s3_size

\* what head_object and os.path.getsize answered in verify_upload
HeadAnswer(local_size, content_length) ==
    IF local_size = content_length THEN "head_equal" ELSE "head_differs"

\* where upload_file's caller goes on once it has returned
AfterPc(c) ==
    CASE c = "sweep" -> "sweep_after"
      [] c = "existing" -> "existing_after"
      [] OTHER -> "returned"

\* an upload handed off without waiting for it: the caller goes on at once
CallUploadNoWait(p, who) ==
    /\ cur' = p
    /\ caller' = who
    /\ attempt' = 0
    /\ result' = FALSE
    /\ puts' = 0
    /\ sleeps' = <<>>
    /\ log' = <<>>
    /\ remote' = Absent
    /\ in_flight' = Append(in_flight, p)
    /\ tasks' = Append(tasks, p)
    /\ pc' = pc

\* a call self.uploader.upload_file(p): s3_key defaults to the base name, the
\* loop starts at attempt 0
CallUpload(p, who) ==
    /\ cur' = p
    /\ caller' = who
    /\ attempt' = 0
    /\ result' = FALSE
    /\ puts' = 0
    /\ sleeps' = <<>>
    /\ log' = <<>>
    /\ remote' = Absent
    /\ in_flight' = Append(in_flight, p)
    /\ tasks' = Append(tasks, p)
    /\ pc' = "put"

\* upload_file returns r
Return(r, o) ==
    /\ result' = r
    /\ log' = Append(log, o)
    /\ pc' = AfterPc(caller)
    /\ in_flight' = SelectSeq(in_flight, LAMBDA q : q # cur)
    /\ UNCHANGED attempt

\* upload_file's frame is gone once the caller has used what it returned
ClearCall ==
    /\ cur' = NoPath
    /\ caller' = "none"
    /\ attempt' = 0
    /\ result' = FALSE
    /\ remote' = Absent
    /\ puts' = 0
    /\ sleeps' = <<>>
    /\ log' = <<>>
    /\ UNCHANGED in_flight

\* the attempt ended without success and without an exception reaching
\* upload_file's handlers: the for loop goes on, or ends and `return False`
NextAttempt(o) ==
    IF InRange(attempt + 1, config.max_retries)
    THEN /\ attempt' = attempt + 1
         /\ log' = Append(log, o)
         /\ pc' = "put"
         /\ UNCHANGED <<result, in_flight>>
    ELSE Return(FALSE, o)

\* s3_client.upload_file succeeds: the object now holds the file as read
PutOk ==
    /\ pc = "put"
    /\ disk[cur] # Absent
    /\ puts' = puts + 1
    /\ remote' = disk[cur]
    /\ pc' = "verify"
    /\ UNCHANGED <<setup, now, disk, pending_files, observing, running, exit_status, failed_any,
                   sweep, scan, caller, cur, attempt, result, sleeps, log,
                   done, in_flight>>

\* s3_client.upload_file raises ClientError
PutClientError ==
    /\ pc = "put"
    /\ disk[cur] # Absent
    /\ puts' = puts + 1
    /\ IF RetriesLeft(attempt, config.max_retries)
       THEN /\ pc' = "backoff"
            /\ log' = Append(log, "put_client_error")
            /\ UNCHANGED <<attempt, result, in_flight>>
       ELSE Return(FALSE, "put_client_error")
    /\ UNCHANGED <<setup, now, disk, pending_files, observing, running, exit_status, failed_any,
                   sweep, scan, remote, caller, cur, sleeps, done>>

\* s3_client.upload_file raises anything else (the local file is missing, or
\* a transfer error that is no ClientError): `except Exception`, return False
PutException ==
    /\ pc = "put"
    /\ puts' = puts + 1
    /\ Return(FALSE, "put_exception")
    /\ UNCHANGED <<setup, now, disk, pending_files, observing, running, exit_status, failed_any,
                   sweep, scan, remote, caller, cur, sleeps, done>>

\* time.sleep(delay) after a ClientError with attempts left, then the for
\* loop goes on, or ends and `return False`
Backoff ==
    /\ pc = "backoff"
    /\ sleeps' = Append(sleeps, BackoffDelay(config.initial_retry_delay, attempt))
    /\ now' = now + BackoffDelay(config.initial_retry_delay, attempt)
    /\ IF InRange(attempt + 1, config.max_retries)
       THEN /\ attempt' = attempt + 1
            /\ pc' = "put"
            /\ UNCHANGED <<result, in_flight>>
       ELSE /\ result' = FALSE
            /\ pc' = AfterPc(caller)
            /\ in_flight' = SelectSeq(in_flight, LAMBDA q : q # cur)
            /\ UNCHANGED attempt
    /\ UNCHANGED <<setup, disk, pending_files, observing, running, exit_status, failed_any, sweep,
                   scan, done, remote, caller, cur, puts, log>>

\* verify_upload: head_object answers, then os.path.getsize and the comparison
HeadOk ==
    /\ pc = "verify"
    /\ IF disk[cur] = Absent
       THEN Return(FALSE, "getsize_error")
       ELSE IF SizesMatch(disk[cur], remote)
       THEN Return(TRUE, HeadAnswer(disk[cur], remote))
       ELSE NextAttempt(HeadAnswer(disk[cur], remote))
    /\ UNCHANGED <<setup, now, disk, pending_files, observing, running, exit_status, failed_any,
                   sweep, scan, remote, caller, cur, puts, sleeps, done>>

\* verify_upload: head_object raises ClientError, verify_upload returns False
HeadClientError ==
    /\ pc = "verify"
    /\ NextAttempt("head_client_error")
    /\ UNCHANGED <<setup, now, disk, pending_files, observing, running, exit_status, failed_any,
                   sweep, scan, remote, caller, cur, puts, sleeps, done>>

\* verify_upload: head_object raises anything else, which verify_upload does
\* not catch: upload_file's `except Exception`, return False
HeadException ==
    /\ pc = "verify"
    /\ Return(FALSE, "head_exception")
    /\ UNCHANGED <<setup, now, disk, pending_files, observing, running, exit_status, failed_any,
                   sweep, scan, remote, caller, cur, puts, sleeps, done>>

\* ------------------------------------------------- VideoFileHandler sweep
\* process_pending_files: files_to_remove = [] and list(self.pending_files.keys())
SweepBegin ==
    /\ pc = "sweep_begin"
    /\ running
    /\ keys' = PendingKeys(pending_files)
    /\ files_to_remove' = <<>>
    /\ tasks' = <<>>
    /\ removes' = {}
    /\ reported' = {}
    /\ pc' = "sweep_loop"
    /\ UNCHANGED <<setup, now, disk, pending_files, observing, running, exit_status, failed_any,
                   call, scan>>

\* a sweep without the os.path.exists check: the missing file is uploaded
SweepMissingUploads ==
    /\ pc = "sweep_loop"
    /\ keys # <<>>
    /\ disk[Head(keys)] = Absent
    /\ CallUpload(Head(keys), "sweep")
    /\ UNCHANGED <<setup, now, disk, pending_files, observing, running, exit_status, failed_any,
                   sweep, scan, removes, reported>>

\* `if not os.path.exists(file_path)`: files_to_remove.append, continue
SweepMissing ==
    /\ pc = "sweep_loop"
    /\ keys # <<>>
    /\ disk[Head(keys)] = Absent
    /\ files_to_remove' = Append(files_to_remove, Head(keys))
    /\ keys' = Tail(keys)
    /\ UNCHANGED <<setup, now, disk, pending_files, observing, running, pc, exit_status, failed_any,
                   call, scan, done>>

\* the file exists and is_file_ready is False: next key
SweepNotReady ==
    /\ pc = "sweep_loop"
    /\ keys # <<>>
    /\ disk[Head(keys)] # Absent
    /\ ~is_file_ready(pending_files, Head(keys), now, config.file_age_threshold)
    /\ keys' = Tail(keys)
    /\ UNCHANGED <<setup, now, disk, pending_files, observing, running, pc, exit_status, failed_any,
                   call, scan, files_to_remove, done>>

\* the file exists and is_file_ready is True: self.uploader.upload_file(file_path)
SweepPromote ==
    /\ pc = "sweep_loop"
    /\ keys # <<>>
    /\ disk[Head(keys)] # Absent
    /\ is_file_ready(pending_files, Head(keys), now, config.file_age_threshold)
    /\ CallUpload(Head(keys), "sweep")
    /\ UNCHANGED <<setup, now, disk, pending_files, observing, running, exit_status, failed_any,
                   sweep, scan, removes, reported>>

\* upload_file has returned to process_pending_files: os.remove on True (an
\* OSError is logged), "Failed to upload" on False; files_to_remove.append
SweepAfter ==
    /\ pc = "sweep_after"
    /\ IF result
       THEN /\ \E removed \in BOOLEAN :
                disk' = IF removed /\ disk[cur] # Absent
                        THEN [disk EXCEPT ![cur] = Absent] ELSE disk
            /\ removes' = removes \cup {cur}
            /\ UNCHANGED <<reported, failed_any>>
       ELSE /\ reported' = reported \cup {cur}
            /\ failed_any' = TRUE
            /\ UNCHANGED <<disk, removes>>
    /\ files_to_remove' = Append(files_to_remove, cur)
    /\ keys' = Tail(keys)
    /\ pc' = "sweep_loop"
    /\ ClearCall
    /\ UNCHANGED <<setup, now, pending_files, observing, running, exit_status,
                   scan, tasks>>

\* the for loop is over: pop every path of files_to_remove; back in
\* start_watching, time.sleep(1)
SweepEnd ==
    /\ pc = "sweep_loop"
    /\ keys = <<>>
    /\ pending_files' = PopAll(pending_files, files_to_remove)
    /\ files_to_remove' = <<>>
    /\ pc' = "loop_sleep"
    /\ UNCHANGED <<setup, now, disk, observing, running, exit_status, failed_any, call, scan, keys,
                   done>>

\* start_watching: time.sleep(1), then `while self.running` again
LoopSleep ==
    /\ pc = "loop_sleep"
    /\ now < MaxTime
    /\ now' = now + LoopSleepSeconds
    /\ pc' = "sweep_begin"
    /\ UNCHANGED <<setup, disk, pending_files, observing, running, exit_status, failed_any, call,
                   sweep, scan, done>>

\* ------------------------------------------------- upload_existing_files
\* glob.glob(os.path.join(video_dir, f"*{extension}")): the names ending in
\* the extension; a pattern that starts with '*' matches no name that starts
\* with '.'
GlobMatches(d, extension) ==
    {p \in Paths : d[p] # Absent /\ ~p.dot /\ p.ext = extension}

\* the orders in which a directory listing may give the paths of S
Listings(S) ==
    {l \in [1..Cardinality(S) -> S] : \A x \in S : \E i \in 1..Cardinality(S) : l[i] = x}

\* video_files after `for extension in ...: video_files.extend(glob.glob(pattern))`
RECURSIVE GlobAll(_, _)
GlobAll(d, extensions) ==
    IF extensions = <<>> THEN {<<>>}
    ELSE {l \o r : l \in Listings(GlobMatches(d, Head(extensions))),
                   r \in GlobAll(d, Tail(extensions))}

\* main: --upload-existing runs upload_existing_files, else start_watching
Start ==
    /\ pc = "start"
    /\ pc' = IF args.upload_existing THEN "scan" ELSE "watch_start"
    /\ UNCHANGED <<setup, now, disk, pending_files, observing, running, exit_status, failed_any,
                   call, sweep, scan, done>>

\* upload_existing_files up to the upload loop: the directory listing
Scan ==
    /\ pc = "scan"
    /\ video_dir
    /\ \E l \in GlobAll(disk, get_file_extensions) : video_files' = l
    /\ success_count' = 0
    /\ failure_count' = 0
    /\ pc' = "existing_loop"
    /\ UNCHANGED <<setup, now, disk, pending_files, observing, running, exit_status, failed_any,
                   call, sweep, done>>

\* `for file_path in video_files`: self.uploader.upload_file(file_path)
ExistingNext ==
    /\ pc = "existing_loop"
    /\ video_files # <<>>
    /\ CallUpload(Head(video_files), "existing")
    /\ UNCHANGED <<setup, now, disk, pending_files, observing, running, exit_status, failed_any,
                   sweep, scan, removes, reported>>

\* an upload loop that counts a file whose os.remove raised as failed
ExistingAfterDeleteFails ==
    /\ pc = "existing_after"
    /\ IF result
       THEN \E removed \in BOOLEAN :
              IF removed /\ disk[cur] # Absent
              THEN /\ disk' = [disk EXCEPT ![cur] = Absent]
                   /\ removes' = removes \cup {cur}
                   /\ success_count' = success_count + 1
                   /\ UNCHANGED <<failure_count, reported, failed_any>>
              ELSE /\ removes' = removes \cup {cur}
                   /\ failure_count' = failure_count + 1
                   /\ reported' = reported \cup {cur}
                   /\ failed_any' = TRUE
                   /\ UNCHANGED <<disk, success_count>>
       ELSE /\ failure_count' = failure_count + 1
            /\ reported' = reported \cup {cur}
            /\ failed_any' = TRUE
            /\ UNCHANGED <<disk, removes, success_count>>
    /\ video_files' = Tail(video_files)
    /\ pc' = "existing_loop"
    /\ ClearCall
    /\ UNCHANGED <<setup, now, pending_files, observing, running, exit_status,
                   sweep, tasks>>

\* an upload loop that gives up at the first failed file
ExistingAfterHalts ==
    /\ pc = "existing_after"
    /\ IF result
       THEN /\ \E removed \in BOOLEAN :
                disk' = IF removed /\ disk[cur] # Absent
                        THEN [disk EXCEPT ![cur] = Absent] ELSE disk
            /\ removes' = removes \cup {cur}
            /\ success_count' = success_count + 1
            /\ video_files' = Tail(video_files)
            /\ UNCHANGED <<failure_count, reported, failed_any>>
       ELSE /\ failure_count' = failure_count + 1
            /\ reported' = reported \cup {cur}
            /\ failed_any' = TRUE
            /\ video_files' = <<>>
            /\ UNCHANGED <<disk, removes, success_count>>
    /\ pc' = "existing_loop"
    /\ ClearCall
    /\ UNCHANGED <<setup, now, pending_files, observing, running, exit_status,
                   sweep, tasks>>

\* upload_file has returned to upload_existing_files: os.remove and
\* success_count += 1 on True (also when os.remove raises OSError),
\* failure_count += 1 on False
ExistingAfter ==
    /\ pc = "existing_after"
    /\ IF result
       THEN /\ \E removed \in BOOLEAN :
                disk' = IF removed /\ disk[cur] # Absent
                        THEN [disk EXCEPT ![cur] = Absent] ELSE disk
            /\ removes' = removes \cup {cur}
            /\ success_count' = success_count + 1
            /\ UNCHANGED <<failure_count, reported, failed_any>>
       ELSE /\ failure_count' = failure_count + 1
            /\ reported' = reported \cup {cur}
            /\ failed_any' = TRUE
            /\ UNCHANGED <<disk, removes, success_count>>
    /\ video_files' = Tail(video_files)
    /\ pc' = "existing_loop"
    /\ ClearCall
    /\ UNCHANGED <<setup, now, pending_files, observing, running, exit_status,
                   sweep, tasks>>

\* the loop is over (or the listing was empty, `return True`):
\* upload_existing_files returns failure_count == 0
ExistingDone ==
    /\ pc = "existing_loop"
    /\ video_files = <<>>
    /\ pc' = "existing_returned"
    /\ UNCHANGED <<setup, now, disk, pending_files, observing, running, exit_status, failed_any,
                   call, sweep, scan, done>>

\* a main that exits with 1 after failures whether or not it is to go on
\* watching
MainAfterExistingStrict ==
    /\ pc = "existing_returned"
    /\ IF failure_count # 0
       THEN /\ pc' = "exit"
            /\ exit_status' = 1
            /\ UNCHANGED <<scan, done>>
       ELSE IF args.continue_watching
       THEN /\ pc' = "watch_start"
            /\ video_files' = <<>>
            /\ success_count' = 0
            /\ failure_count' = 0
            /\ tasks' = <<>>
            /\ removes' = {}
            /\ reported' = {}
            /\ UNCHANGED exit_status
       ELSE /\ pc' = "exit"
            /\ exit_status' = 0
            /\ UNCHANGED <<scan, done>>
    /\ UNCHANGED <<setup, now, disk, pending_files, observing, running,
                   failed_any, call, sweep>>

\* main after upload_existing_files: sys.exit(1) on failures without
\* --continue-watching; start_watching with --continue-watching; else main ends
MainAfterExisting ==
    /\ pc = "existing_returned"
    /\ IF failure_count # 0 /\ ~args.continue_watching
       THEN /\ pc' = "exit"
            /\ exit_status' = 1
            /\ UNCHANGED <<scan, done>>
       ELSE IF args.continue_watching
       THEN /\ pc' = "watch_start"
            /\ video_files' = <<>>
            /\ success_count' = 0
            /\ failure_count' = 0
            /\ tasks' = <<>>
            /\ removes' = {}
            /\ reported' = {}
            /\ UNCHANGED exit_status
       ELSE /\ pc' = "exit"
            /\ exit_status' = 0
            /\ UNCHANGED <<scan, done>>
    /\ UNCHANGED <<setup, now, disk, pending_files, observing, running,
                   failed_any, call, sweep>>

\* start_watching: the directory exists; observer.schedule(..., recursive=False),
\* observer.start()
WatchStart ==
    /\ pc = "watch_start"
    /\ video_dir
    /\ observing' = TRUE
    /\ pc' = "watch_running"
    /\ UNCHANGED <<setup, now, disk, pending_files, running, exit_status,
                   failed_any, call, sweep, scan, done>>

\* start_watching: self.running = True, then the while loop
WatchRunning ==
    /\ pc = "watch_running"
    /\ running' = TRUE
    /\ pc' = "sweep_begin"
    /\ UNCHANGED <<setup, now, disk, pending_files, observing, exit_status,
                   failed_any, call, sweep, scan, done>>

\* start_watching: `while self.running` is False; finally: self.stop(); back
\* in main, which ends
WatchReturn ==
    /\ pc = "sweep_begin"
    /\ ~running
    /\ running' = FALSE
    /\ observing' = FALSE
    /\ pc' = "exit"
    /\ exit_status' = 0
    /\ UNCHANGED <<setup, now, disk, pending_files, failed_any, call, sweep,
                   scan, done>>

\* a main that prints the FileNotFoundError and returns normally
DirectoryMissingQuiet ==
    /\ pc \in {"scan", "watch_start"}
    /\ ~video_dir
    /\ pc' = "exit"
    /\ exit_status' = 0
    /\ UNCHANGED <<setup, now, disk, pending_files, observing, running,
                   failed_any, call, sweep, scan, done>>

\* the video directory is missing: upload_existing_files or start_watching
\* raises FileNotFoundError, main prints it and calls sys.exit(1)
DirectoryMissing ==
    /\ pc \in {"scan", "watch_start"}
    /\ ~video_dir
    /\ pc' = "exit"
    /\ exit_status' = 1
    /\ UNCHANGED <<setup, now, disk, pending_files, observing, running,
                   failed_any, call, sweep, scan, done>>

\* a signal_handler that sets the flag and leaves the observer running
signal_handler_flag_only ==
    /\ pc # "exit"
    /\ running' = FALSE
    /\ UNCHANGED <<setup, now, disk, pending_files, observing, pc, exit_status,
                   failed_any, call, sweep, scan, done>>

\* SIGINT or SIGTERM: signal_handler calls self.stop(), which sets running to
\* False and stops and joins the observer if it is alive; the service thread
\* then goes on where it was
signal_handler ==
    /\ pc # "exit"
    /\ running' = FALSE
    /\ observing' = FALSE
    /\ UNCHANGED <<setup, now, disk, pending_files, pc, exit_status,
                   failed_any, call, sweep, scan, done>>

\* ------------------------------------------------------------ environment
\* a writer creates p with s bytes; the observer, if started, calls on_created
WriterCreate(p, s) ==
    /\ disk[p] = Absent
    /\ disk' = [disk EXCEPT ![p] = s]
    /\ pending_files' = IF observing THEN on_created(pending_files, p, FALSE, now)
                        ELSE pending_files
    /\ UNCHANGED <<setup, now, observing, running, pc, exit_status, failed_any, call, sweep, scan,
                   done>>

\* a writer appends to p or touches it; the observer, if started, calls on_modified
WriterModify(p, s) ==
    /\ disk[p] # Absent
    /\ s >= disk[p]
    /\ disk' = [disk EXCEPT ![p] = s]
    /\ pending_files' = IF observing THEN on_modified(pending_files, p, FALSE, now)
                        ELSE pending_files
    /\ UNCHANGED <<setup, now, observing, running, pc, exit_status, failed_any, call, sweep, scan,
                   done>>

\* p is moved away or deleted by someone else
ExternalDelete(p) ==
    /\ disk[p] # Absent
    /\ disk' = [disk EXCEPT ![p] = Absent]
    /\ UNCHANGED <<setup, now, pending_files, observing, running, pc, exit_status, failed_any, call,
                   sweep, scan, done>>

\* ---------------------------------------------------------- specifications
UploadActions ==
    \/ PutOk
    \/ PutClientError
    \/ PutException
    \/ Backoff
    \/ HeadOk
    \/ HeadClientError
    \/ HeadException

\* the state after construction, with what is common to every run
InitCommon ==
    /\ now = 0
    /\ remote = Absent
    /\ pending_files = <<>>
    /\ observing = FALSE
    /\ running = FALSE
    /\ failed_any = FALSE
    /\ keys = <<>>
    /\ files_to_remove = <<>>
    /\ video_files = <<>>
    /\ cur = NoPath
    /\ caller = "none"
    /\ attempt = 0
    /\ result = FALSE
    /\ success_count = 0
    /\ failure_count = 0
    /\ exit_status = 0
    /\ puts = 0
    /\ sleeps = <<>>
    /\ log = <<>>
    /\ in_flight = <<>>
    /\ tasks = <<>>
    /\ removes = {}
    /\ reported = {}

Modes ==
    {[upload_existing |-> FALSE, continue_watching |-> FALSE],
     [upload_existing |-> TRUE, continue_watching |-> FALSE],
     [upload_existing |-> TRUE, continue_watching |-> TRUE]}

\* the directories whose files are among F
Directories(F) ==
    {d \in [Paths -> Sizes \cup {Absent}] : \A p \in Paths \ F : d[p] = Absent}

ReconcileActions ==
    \/ Start
    \/ Scan
    \/ ExistingNext
    \/ ExistingAfter
    \/ ExistingDone
    \/ MainAfterExisting

WatchActions ==
    \/ WatchStart
    \/ WatchRunning
    \/ SweepBegin
    \/ SweepMissing
    \/ SweepNotReady
    \/ SweepPromote
    \/ SweepAfter
    \/ SweepEnd
    \/ LoopSleep

\* ---- Spec: the service in any mode over two video files
SpecFiles == {FileA, FileB}

Init ==
    /\ InitCommon
    /\ config = SmallConfig
    /\ args \in Modes
    /\ video_dir = TRUE
    /\ disk \in Directories(SpecFiles)
    /\ pc = "start"

Next ==
    \/ ReconcileActions
    \/ WatchActions
    \/ UploadActions
    \/ \E p \in SpecFiles, s \in Sizes : WriterCreate(p, s)
    \/ \E p \in SpecFiles, s \in Sizes : WriterModify(p, s)
    \/ \E p \in SpecFiles : ExternalDelete(p)

Spec == Init /\ [][Next]_vars

\* ---- SpecReconcile: --upload-existing alone, over a directory that may
\* also hold a hidden video file and a file with another extension
InitReconcile ==
    /\ InitCommon
    /\ config = SmallConfig
    /\ args = [upload_existing |-> TRUE, continue_watching |-> FALSE]
    /\ video_dir = TRUE
    /\ disk \in Directories(Paths)
    /\ pc = "start"

NextReconcile ==
    \/ ReconcileActions
    \/ UploadActions
    \/ \E p \in Paths, s \in Sizes : WriterCreate(p, s)
    \/ \E p \in Paths, s \in Sizes : WriterModify(p, s)
    \/ \E p \in Paths : ExternalDelete(p)

SpecReconcile == InitReconcile /\ [][NextReconcile]_vars

\* ---- SpecLadder: one video file, every max_retries up to the fallback,
\* two values of initial_retry_delay, watch mode or --upload-existing
LadderFiles == {FileA}

LadderConfigs ==
    {[max_retries |-> m, initial_retry_delay |-> d,
      file_age_threshold |-> DefaultFileAgeThreshold] :
        m \in 0..DefaultMaxRetries,
        d \in {LoopSleepSeconds, DefaultInitialRetryDelay}}

InitLadder ==
    /\ InitCommon
    /\ config \in LadderConfigs
    /\ args \in {[upload_existing |-> FALSE, continue_watching |-> FALSE],
                 [upload_existing |-> TRUE, continue_watching |-> FALSE]}
    /\ video_dir = TRUE
    /\ disk \in Directories(LadderFiles)
    /\ pc = "start"

NextLadder ==
    \/ ReconcileActions
    \/ WatchActions
    \/ UploadActions
    \/ \E s \in Sizes : WriterCreate(FileA, s)
    \/ \E s \in Sizes : WriterModify(FileA, s)
    \/ ExternalDelete(FileA)

SpecLadder == InitLadder /\ [][NextLadder]_vars

\* ---- SpecService: one video file, any mode, the video directory there or
\* not, and termination requests at any moment
ServiceFiles == {FileA}

InitService ==
    /\ InitCommon
    /\ config = SmallConfig
    /\ args \in Modes
    /\ video_dir \in BOOLEAN
    /\ disk \in Directories(IF video_dir THEN ServiceFiles ELSE {})
    /\ pc = "start"

NextService ==
    \/ ReconcileActions
    \/ WatchActions
    \/ UploadActions
    \/ WatchReturn
    \/ DirectoryMissing
    \/ signal_handler
    \/ \E p \in ServiceFiles, s \in Sizes : video_dir /\ WriterCreate(p, s)
    \/ \E p \in ServiceFiles, s \in Sizes : WriterModify(p, s)
    \/ \E p \in ServiceFiles : ExternalDelete(p)

SpecService == InitService /\ [][NextService]_vars

\* ---- SpecShutdown: a watch run over two video files with termination
\* requests at any moment
InitShutdown ==
    /\ InitCommon
    /\ config = SmallConfig
    /\ args = [upload_existing |-> FALSE, continue_watching |-> FALSE]
    /\ video_dir = TRUE
    /\ disk \in Directories(SpecFiles)
    /\ pc = "start"

NextShutdown ==
    \/ Start
    \/ WatchActions
    \/ UploadActions
    \/ WatchReturn
    \/ signal_handler
    \/ \E p \in SpecFiles, s \in Sizes : WriterCreate(p, s)
    \/ \E p \in SpecFiles, s \in Sizes : WriterModify(p, s)
    \/ \E p \in SpecFiles : ExternalDelete(p)

SpecShutdown == InitShutdown /\ [][NextShutdown]_vars

\* ---- SpecEvents: the event handlers alone, called with any path, for a
\* file or for a directory, at any time
FileM == [stem |-> "m", ext |-> ".Mp4", dot |-> FALSE]

EventPaths == Paths \cup {FileM}

\* the observer dispatches a created event
EventCreated(p, is_directory) ==
    /\ pending_files' = on_created(pending_files, p, is_directory, now)
    /\ UNCHANGED <<setup, now, disk, observing, running, pc, exit_status,
                   failed_any, call, sweep, scan, done>>

\* the observer dispatches a modified event
EventModified(p, is_directory) ==
    /\ pending_files' = on_modified(pending_files, p, is_directory, now)
    /\ UNCHANGED <<setup, now, disk, observing, running, pc, exit_status,
                   failed_any, call, sweep, scan, done>>

\* time.time() moves on
Clock ==
    /\ now < MaxTime
    /\ now' = now + 1
    /\ UNCHANGED <<setup, disk, pending_files, observing, running, pc,
                   exit_status, failed_any, call, sweep, scan, done>>

InitEvents ==
    /\ InitCommon
    /\ config = SmallConfig
    /\ args = [upload_existing |-> FALSE, continue_watching |-> FALSE]
    /\ video_dir = TRUE
    /\ disk \in Directories({})
    /\ pc = "start"

NextEvents ==
    \/ \E p \in EventPaths, is_directory \in BOOLEAN : EventCreated(p, is_directory)
    \/ \E p \in EventPaths, is_directory \in BOOLEAN : EventModified(p, is_directory)
    \/ Clock

SpecEvents == InitEvents /\ [][NextEvents]_vars

\* ------------------------------------------------------------ vocabulary
\* upload_file has returned and its caller has not yet used the result
Returned == pc \in {"sweep_after", "existing_after"}

\* an upload_file call is in progress
Uploading == pc \in {"put", "verify", "backoff"}

\* the step is one of the service thread, not of a writer or the observer
ServiceStep == <<pc, call, sweep, scan>>' # <<pc, call, sweep, scan>>

\* the call's last attempt was a put that succeeded followed by a head_object
\* answer equal to the size of the local file
Verified == /\ log # <<>>
            /\ log[Len(log)] = "head_equal"
            /\ remote # Absent

\* ---------------------------------------------------------------- properties
\* C1: in watch mode and in reconcile mode alike, the service calls os.remove
\* on a file exactly when the upload_file call for it ended with a successful
\* put followed by a head_object answer equal to the local size, and no other
\* step of the service removes a file: after failed or unverified attempts the
\* file is left on disk.
C1_DeleteIffVerified ==
    [][/\ (Returned /\ pc' # pc) =>
            IF Verified
            THEN cur \notin removes /\ removes' = removes \cup {cur}
            ELSE removes' = removes /\ disk' = disk
       /\ \A p \in Paths :
            (ServiceStep /\ disk[p] # Absent /\ disk'[p] = Absent) =>
                (Returned /\ p = cur /\ Verified)]_vars

\* a sweep has deleted a.mp4 after a verified upload
C1_Witness ==
    /\ pc = "sweep_loop"
    /\ FileA \in removes
    /\ disk[FileA] = Absent

\* how often p occurs in the sequence q
Count(q, p) == Cardinality({i \in 1..Len(q) : q[i] = p})

\* C2: in every reachable state each local path has at most one upload_file
\* call that has started and not returned, whatever create and modify events
\* and sweeps have interleaved.
C2_OneOutstandingPerPath == \A p \in Paths : Count(in_flight, p) <= 1

\* a.mp4 is being uploaded for the second time at least (an earlier attempt
\* failed) while an event has put it back into the registry
C2_Witness ==
    /\ Uploading
    /\ in_flight = <<FileA>>
    /\ attempt >= 1
    /\ InPending(pending_files, FileA)
    /\ Timestamp(pending_files, FileA) = now

\* C3: an event for a tracked file sets its timestamp to the time of the
\* event (a modification of a tracked file always does); a sweep that finds
\* less than file_age_threshold since that timestamp does not hand the file to
\* upload_file; and a sweep hands a file over only when at least
\* file_age_threshold has passed since its timestamp.
C3_ModifyDefersPromotion ==
    [][/\ \A p \in Paths :
            (~ServiceStep /\ InPending(pending_files, p)) =>
                /\ InPending(pending_files', p)
                /\ Timestamp(pending_files', p) \in {Timestamp(pending_files, p), now}
                /\ (disk[p] # Absent /\ disk'[p] # Absent /\ disk'[p] # disk[p])
                       => Timestamp(pending_files', p) = now
       /\ (/\ ServiceStep
           /\ pc = "sweep_loop"
           /\ keys # <<>>
           /\ InPending(pending_files, Head(keys))
           /\ now - Timestamp(pending_files, Head(keys)) < config.file_age_threshold)
              => (tasks' = tasks /\ pc' = "sweep_loop")
       /\ (pc = "sweep_loop" /\ pc' = "put") =>
              /\ InPending(pending_files, cur')
              /\ now - Timestamp(pending_files, cur') >= config.file_age_threshold]_vars

\* a.mp4 was touched at time 1 and is handed to upload_file at time 3
C3_Witness ==
    /\ pc = "put"
    /\ caller = "sweep"
    /\ cur = FileA
    /\ InPending(pending_files, FileA)
    /\ Timestamp(pending_files, FileA) = 1
    /\ now = 3

\* C4: when a sweep comes to a tracked path that exists and whose timestamp
\* is at least file_age_threshold old, it hands that path to upload_file; no
\* sweep hands a path over twice; the end of the sweep leaves none of the
\* paths it handed over in the registry; and only a create event enters a
\* path into the registry.
C4_SweepEmitsOncePerReadyFile ==
    [][/\ (/\ ServiceStep
           /\ pc = "sweep_loop"
           /\ keys # <<>>
           /\ disk[Head(keys)] # Absent
           /\ InPending(pending_files, Head(keys))
           /\ now - Timestamp(pending_files, Head(keys)) >= config.file_age_threshold)
              => (pc' = "put" /\ cur' = Head(keys) /\ tasks' = Append(tasks, Head(keys)))
       /\ \A p \in Paths : Count(tasks', p) <= 1
       /\ (pc = "sweep_loop" /\ pc' = "loop_sleep") =>
              \A p \in Range(tasks) : ~InPending(pending_files', p)
       /\ \A p \in Paths :
            (~InPending(pending_files, p) /\ InPending(pending_files', p)) =>
                (~ServiceStep /\ disk[p] = Absent /\ disk'[p] # Absent)]_vars

\* a sweep has handed both files to upload_file and has emptied the registry
C4_Witness ==
    /\ pc = "loop_sleep"
    /\ tasks = <<FileA, FileB>>
    /\ pending_files = <<>>

Ladder(d, n) == [k \in 1..n |-> d * Pow2(k - 1)]

\* this step adds o to what upload_file has met in its call
Logged(o) == Uploading /\ log' = Append(log, o)

\* the failures of s3_client.upload_file in the log
PutFailures == Count(log, "put_client_error") + Count(log, "put_exception")

\* C5 (amended): if s3_client.upload_file raises ClientError exactly N times
\* and then succeeds and the sizes match, upload_file has made N+1 puts, has
\* slept initial_delay*2^0 .. initial_delay*2^(N-1) in that order, N is at
\* most max_retries, and it returns True.
C5_ClientErrorsThenSuccess ==
    (/\ Returned
     /\ log # <<>>
     /\ Range(log) \subseteq {"put_client_error", "head_equal"}
     /\ log[Len(log)] = "head_equal")
        => /\ Count(log, "put_client_error") <= config.max_retries
           /\ Count(log, "head_equal") = 1
           /\ puts = Count(log, "put_client_error") + 1
           /\ sleeps = Ladder(config.initial_retry_delay, Count(log, "put_client_error"))
           /\ result = TRUE

\* C5 (as stated): whenever upload_file has returned after N <= max_retries
\* failures of put, of whatever kind, and nothing else went wrong, it has made
\* N+1 puts, slept the N delays and returned True.
C5_AnyPutFailureThenSuccess ==
    (/\ Returned
     /\ log # <<>>
     /\ disk[cur] # Absent
     /\ Range(log) \subseteq {"put_client_error", "put_exception", "head_equal"}
     /\ PutFailures <= config.max_retries)
        => /\ puts = PutFailures + 1
           /\ sleeps = Ladder(config.initial_retry_delay, PutFailures)
           /\ result = TRUE

\* three ClientErrors, then a verified put, with max_retries = 3
C5_Witness ==
    /\ Returned
    /\ log = <<"put_client_error", "put_client_error", "put_client_error", "head_equal">>
    /\ sleeps = <<5, 10, 20>>
    /\ puts = 4
    /\ result = TRUE

\* C6 (amended): if s3_client.upload_file raises ClientError on every
\* attempt, upload_file has made max_retries + 1 puts when it returns, it
\* returns False, it has slept max_retries times and not after the last
\* attempt, and the caller leaves the local file on disk and reports the
\* failure.
C6_ClientErrorsExhaust ==
    [][/\ (pc = "put" /\ Returned') => (now' = now /\ sleeps' = sleeps)
       /\ (/\ Returned
           /\ pc' # pc
           /\ log # <<>>
           /\ Range(log) = {"put_client_error"})
              => /\ puts = config.max_retries + 1
                 /\ Len(log) = config.max_retries + 1
                 /\ result = FALSE
                 /\ sleeps = Ladder(config.initial_retry_delay, config.max_retries)
                 /\ disk' = disk
                 /\ removes' = removes
                 /\ cur \in reported']_vars

\* C6 (as stated): if every put of a call failed, of whatever kind, the call
\* made max_retries + 1 puts and returned False.
C6_AnyPutFailureExhausts ==
    (/\ Returned
     /\ log # <<>>
     /\ disk[cur] # Absent
     /\ Range(log) \subseteq {"put_client_error", "put_exception"})
        => (puts = config.max_retries + 1 /\ result = FALSE)

\* four ClientErrors with max_retries = 3: upload_file has given up and the
\* file is on disk
C6_Witness ==
    /\ Returned
    /\ log = <<"put_client_error", "put_client_error", "put_client_error", "put_client_error">>
    /\ sleeps = <<5, 10, 20>>
    /\ result = FALSE
    /\ disk[cur] # Absent

\* C7 (amended): when the put has succeeded and head_object then reports a
\* ContentLength different from the local size, or raises ClientError, the
\* call does not succeed on that attempt; with attempts left upload_file goes
\* on to the next put, with the attempt index one higher, and with none left
\* it returns False; a call never makes more than max_retries + 1 puts.
C7_VerifyFailureConsumesAttempt ==
    [][/\ (Logged("head_differs") \/ Logged("head_client_error")) =>
            /\ ~(Returned' /\ result')
            /\ puts' = puts
            /\ IF attempt < config.max_retries
               THEN pc' = "put" /\ attempt' = attempt + 1
               ELSE Returned' /\ result' = FALSE
       /\ Uploading => (puts <= config.max_retries + 1 /\ puts <= attempt + 1)]_vars

\* C7 (as stated): whenever head_object reports another size or fails, in
\* whatever way, upload_file does not return while attempts remain.
C7_AnyHeadErrorConsumesAttempt ==
    [][(/\ \/ Logged("head_differs")
           \/ Logged("head_client_error")
           \/ Logged("head_exception")
        /\ attempt < config.max_retries)
          => (pc' = "put" /\ attempt' = attempt + 1)]_vars

\* the file grew between put and head_object; upload_file is at its second
\* put
C7_Witness ==
    /\ pc = "put"
    /\ attempt = 1
    /\ puts = 1
    /\ log = <<"head_differs">>

\* C8 (amended): a ClientError of s3_client.upload_file or of head_object
\* does not make upload_file return while the attempt index is below
\* max_retries, and makes it return False at index max_retries; any other
\* exception of either makes upload_file return False at once, whatever the
\* attempt index.
C8_ClientErrorsRetryable ==
    [][/\ (Logged("put_client_error") /\ attempt < config.max_retries)
              => (pc' = "backoff" /\ attempt' = attempt)
       /\ (Logged("head_client_error") /\ attempt < config.max_retries)
              => (pc' = "put" /\ attempt' = attempt + 1)
       /\ ((Logged("put_client_error") \/ Logged("head_client_error"))
              /\ attempt >= config.max_retries)
              => (Returned' /\ result' = FALSE /\ attempt = config.max_retries)
       /\ (Logged("put_exception") \/ Logged("head_exception"))
              => (Returned' /\ result' = FALSE)]_vars

\* C8 (as stated): no error of put or head_object makes upload_file return
\* while the attempt index is below max_retries.
C8_EveryErrorRetryable ==
    [][(/\ \/ Logged("put_client_error")
           \/ Logged("head_client_error")
           \/ Logged("put_exception")
           \/ Logged("head_exception")
        /\ attempt < config.max_retries)
          => ~Returned']_vars

\* ClientErrors of put and of head_object have brought upload_file to the
\* sleep before its fourth attempt
C8_Witness ==
    /\ pc = "backoff"
    /\ attempt = 2
    /\ log = <<"put_client_error", "head_client_error", "put_client_error">>
    /\ config.max_retries = 3

\* C10: the listing that upload_existing_files builds holds every file that
\* is in the directory and whose name ends in an extension of the allow-list
\* exactly once, and no other file (so one upload_file call is made per such
\* file, whatever its age).
C10_ScanOnePerMatchingFile ==
    [][(pc = "scan" /\ pc' = "existing_loop") =>
          \A p \in Paths :
              Count(video_files', p) =
                  IF disk[p] # Absent /\ is_video_file(p) THEN 1 ELSE 0]_vars

\* the number of files the scan listed: those handed to upload_file so far
\* and those still to come (the file of a call in progress is in both)
Candidates ==
    Len(tasks) + Len(video_files)
        - (IF Uploading \/ pc = "existing_after" THEN 1 ELSE 0)

\* upload_existing_files is in its upload loop
InExistingLoop ==
    \/ pc \in {"existing_loop", "existing_after"}
    \/ Uploading /\ caller = "existing"

\* C11: upload_existing_files goes on to the next listed file whatever
\* upload_file returned for the one before; every listed file is handed to
\* upload_file, each adds one to exactly one of success_count and
\* failure_count, and when the loop is over success_count + failure_count is
\* the number of listed files.
C11_ScanRunsToCompletion ==
    [][/\ (pc = "existing_after" /\ pc' # pc) =>
            /\ pc' = "existing_loop"
            /\ video_files' = Tail(video_files)
            /\ \/ success_count' = success_count + 1 /\ failure_count' = failure_count
               \/ success_count' = success_count /\ failure_count' = failure_count + 1
       /\ (pc = "existing_loop" /\ video_files # <<>> /\ ServiceStep) =>
            /\ pc' = "put"
            /\ cur' = Head(video_files)
            /\ tasks' = Append(tasks, Head(video_files))
       /\ (InExistingLoop /\ InExistingLoop') => Candidates' = Candidates
       /\ (pc = "existing_loop" /\ pc' = "existing_returned") =>
            /\ video_files = <<>>
            /\ success_count + failure_count = Len(tasks)
            /\ Len(tasks) = Candidates]_vars

\* the first of two listed files failed and the second was uploaded
C11_Witness ==
    /\ pc = "existing_returned"
    /\ Len(tasks) = 2
    /\ reported = {tasks[1]}
    /\ removes = {tasks[2]}
    /\ success_count = 1
    /\ failure_count = 1

\* C12: when upload_existing_files has returned, main without
\* --continue-watching ends the process, with a non-zero status exactly when
\* an upload of the scan failed, and main with --continue-watching goes on to
\* start_watching, after the scan has gone through its whole listing; a
\* missing video directory ends the process with a non-zero status; so a run
\* with --upload-existing alone that has ended has a non-zero status exactly
\* when an upload failed or the directory is missing.
C12_ReconcileExitStatus ==
    [][/\ (pc = "existing_returned" /\ pc' # pc) =>
            /\ video_files = <<>>
            /\ (failure_count > 0) <=> failed_any
            /\ IF args.continue_watching
               THEN pc' = "watch_start" /\ exit_status' = exit_status
               ELSE pc' = "exit" /\ ((exit_status' # 0) <=> failed_any)
       /\ (pc = "scan" /\ ~video_dir /\ pc' # pc) =>
            (pc' = "exit" /\ exit_status' # 0)
       /\ (pc' = "exit" /\ args.upload_existing /\ ~args.continue_watching) =>
            ((exit_status' # 0) <=> (failed_any' \/ ~video_dir))]_vars

\* a run with --upload-existing alone has ended with status 1 after a failed
\* upload
C12_Witness ==
    /\ pc = "exit"
    /\ exit_status = 1
    /\ failed_any
    /\ video_dir
    /\ args = [upload_existing |-> TRUE, continue_watching |-> FALSE]

\* C13 (amended): a run that has ended has status 1 when the video directory
\* is missing, and when it was a run with --upload-existing alone in which an
\* upload failed; every other run that has ended, among them the watch run
\* and the reconcile-then-watch run in which uploads failed, has status 0.
C13_ExitStatusByMode ==
    pc = "exit" =>
        exit_status =
            IF ~video_dir THEN 1
            ELSE IF args.upload_existing /\ ~args.continue_watching /\ failed_any
            THEN 1
            ELSE 0

\* C13 (as stated): a run that has ended has status 0 exactly when the
\* directory was there and no upload of the run failed.
C13_ExitStatusReflectsFailures ==
    pc = "exit" => ((exit_status = 0) <=> (video_dir /\ ~failed_any))

\* a watch run in which an upload failed has ended with status 0
C13_Witness ==
    /\ pc = "exit"
    /\ exit_status = 0
    /\ failed_any
    /\ ~args.upload_existing

\* C14: when upload_file has returned True and os.remove then raises, the
\* caller logs no "Failed to upload"; upload_existing_files adds one to
\* success_count and nothing to failure_count and goes on with its loop;
\* process_pending_files puts the path on files_to_remove and goes on with
\* its sweep, and the service keeps running.
C14_DeleteErrorKeepsSuccess ==
    [][(Returned /\ result /\ pc' # pc /\ disk' = disk) =>
          /\ cur \in removes'
          /\ reported' = reported
          /\ failed_any' = failed_any
          /\ exit_status' = exit_status
          /\ running' = running
          /\ caller = "existing" =>
                /\ success_count' = success_count + 1
                /\ failure_count' = failure_count
                /\ pc' = "existing_loop"
          /\ caller = "sweep" =>
                /\ pc' = "sweep_loop"
                /\ files_to_remove' = Append(files_to_remove, cur)]_vars

\* a run with --upload-existing alone has ended with status 0 although
\* os.remove was called on both verified files and both are on disk
C14_Witness ==
    /\ pc = "exit"
    /\ exit_status = 0
    /\ ~failed_any
    /\ removes = {FileA, FileB}
    /\ success_count = 2
    /\ disk[FileA] # Absent
    /\ disk[FileB] # Absent

\* the extension of p is one of the configured extensions, letter for letter
AllowListed(p) == p.ext = ".mp4" \/ p.ext = ".MP4"

\* the registries pf and qf agree on every path but p
SameButFor(pf, qf, p) ==
    \A q \in EventPaths \ {p} :
        /\ InPending(pf, q) <=> InPending(qf, q)
        /\ InPending(pf, q) => Timestamp(pf, q) = Timestamp(qf, q)

\* C15 (amended): a create event for a file with an allow-listed extension
\* sets the timestamp of its path to the current time, tracked or not; a
\* modify event for a file sets the timestamp of its path to the current time
\* if the path is tracked and changes nothing if it is not; an event for a
\* directory, and a create event for a path whose extension is not on the
\* allow-list, changes nothing; no event touches the entry of another path,
\* and the registry holds allow-listed paths only.
C15_EventsUpdateRegistry ==
    /\ \A q \in Range(PendingKeys(pending_files)) : AllowListed(q)
    /\ \A p \in EventPaths, d \in BOOLEAN :
        LET c == on_created(pending_files, p, d, now)
            m == on_modified(pending_files, p, d, now)
        IN /\ SameButFor(pending_files, c, p)
           /\ SameButFor(pending_files, m, p)
           /\ (~d /\ AllowListed(p)) =>
                 (InPending(c, p) /\ Timestamp(c, p) = now)
           /\ (~d /\ InPending(pending_files, p)) =>
                 (InPending(m, p) /\ Timestamp(m, p) = now)
           /\ (~d /\ ~InPending(pending_files, p)) => m = pending_files
           /\ (d \/ ~AllowListed(p)) => (c = pending_files /\ m = pending_files)

\* C15 (as stated): a create event and a modify event alike, for a file with
\* an allow-listed extension, set the timestamp of its path to the current
\* time, tracked or not; events for directories and for other extensions
\* change nothing, and the registry holds allow-listed paths only.
C15_EveryEventRecords ==
    /\ \A q \in Range(PendingKeys(pending_files)) : AllowListed(q)
    /\ \A p \in EventPaths, d \in BOOLEAN :
        LET c == on_created(pending_files, p, d, now)
            m == on_modified(pending_files, p, d, now)
        IN /\ (~d /\ AllowListed(p)) =>
                 /\ InPending(c, p) /\ Timestamp(c, p) = now
                 /\ InPending(m, p) /\ Timestamp(m, p) = now
           /\ (d \/ ~AllowListed(p)) => (c = pending_files /\ m = pending_files)

\* b.MP4 was created at time 0 and a.mp4 was created or modified at time 2;
\* .h.mp4 is tracked too
C15_Witness ==
    /\ now = 2
    /\ InPending(pending_files, FileB) /\ Timestamp(pending_files, FileB) = 0
    /\ InPending(pending_files, FileA) /\ Timestamp(pending_files, FileA) = 2
    /\ InPending(pending_files, FileH) /\ Timestamp(pending_files, FileH) = 1

\* process_pending_files has taken its list of keys and has not yet popped
\* the paths of files_to_remove
SweepInProgress ==
    \/ pc \in {"sweep_loop", "sweep_after"}
    \/ Uploading /\ caller = "sweep"

\* C16: from the moment process_pending_files reads the registry to the
\* moment it has popped its processed paths, no event handler changes the
\* registry.
C16_SweepExcludesHandlers ==
    [][(SweepInProgress /\ ~ServiceStep) => pending_files' = pending_files]_vars

\* the service thread is in start_watching's while loop
InWatchLoop ==
    \/ pc \in {"sweep_begin", "sweep_loop", "sweep_after", "loop_sleep"}
    \/ Uploading /\ caller = "sweep"

\* C17 (amended): once a termination request has arrived during the watch
\* loop, the observer is stopped and no event changes the registry any more;
\* the sweep in progress goes on to its end, with every attempt of the upload
\* in flight and with the uploads of the other ready files of its key list;
\* no further sweep is started, and at its next test of `running` the loop
\* returns and the run ends with status 0.
C17_ShutdownAfterSweep ==
    [][(InWatchLoop /\ ~running) =>
          /\ ~observing
          /\ ~ServiceStep => pending_files' = pending_files
          /\ (pc = "sweep_begin" /\ pc' # pc) => (pc' = "exit" /\ exit_status' = 0)
          /\ (pc' = "sweep_loop" /\ pc # pc') => pc = "sweep_after"
          /\ (pc = "sweep_loop" /\ pc' = "put") =>
                (cur' = Head(keys) /\ attempt' = 0)
          /\ (Uploading /\ ServiceStep) => (Uploading' \/ pc' = "sweep_after")
          /\ (pc = "sweep_after" /\ pc' # pc) => (pc' = "sweep_loop" /\ keys' = Tail(keys))
          /\ pc' = "exit" \/ InWatchLoop']_vars

\* C17 (as stated): once a termination request has arrived during the watch
\* loop, no event changes the registry, the upload in flight goes on, no
\* upload of another file is started, and the loop returns at its next test
\* of `running`.
C17_NoUploadAfterShutdown ==
    [][(InWatchLoop /\ ~running) =>
          /\ ~ServiceStep => pending_files' = pending_files
          /\ (Uploading /\ ServiceStep) => (Uploading' \/ pc' = "sweep_after")
          /\ tasks' = tasks
          /\ (pc = "sweep_begin" /\ pc' # pc) => pc' = "exit"]_vars

\* the watch run has ended after a sweep that uploaded both files
C17_Witness ==
    /\ pc = "exit"
    /\ exit_status = 0
    /\ ~running
    /\ ~observing
    /\ tasks = <<FileA, FileB>>
    /\ pending_files = <<>>

\* C18: a video file that is on disk when the process starts (left there by
\* an interrupted or failed upload of an earlier run) and for which no event
\* arrives is handed to upload_file by this run: it is in the listing of the
\* scan of a run with --upload-existing, and the first cycle of a watch run
\* hands it over.
C18_RestartRecovers ==
    [][\A p \in Paths :
          (disk[p] # Absent /\ is_video_file(p) /\ ~InPending(pending_files, p)) =>
              /\ (pc = "scan" /\ pc' = "existing_loop") =>
                    p \in Range(video_files')
              /\ (/\ ~args.upload_existing
                  /\ now = 0
                  /\ pc = "sweep_loop"
                  /\ pc' = "loop_sleep") => p \in Range(tasks)]_vars

\* C19: the attempts of one upload_file call follow one another, and
\* whenever the call goes from attempt k to attempt k+1 it has slept
\* initial_delay * 2^k since attempt k failed, whichever way it failed.
C19_AttemptsFollowDelay ==
    [][/\ Uploading => puts <= attempt + 1
       /\ (Uploading /\ Uploading' /\ attempt' # attempt) =>
            /\ attempt' = attempt + 1
            /\ sleeps' = Append(sleeps, config.initial_retry_delay * Pow2(attempt))
            /\ now' >= now + config.initial_retry_delay * Pow2(attempt)]_vars

\* how far the upload_file call in progress has got: three stages an attempt
Progress ==
    3 * attempt + (CASE pc = "put" -> 0
                     [] pc = "verify" -> 1
                     [] OTHER -> 2)

\* C20: whatever s3_client.upload_file and head_object answer, an upload_file
\* call starts at attempt 0, its attempt index never exceeds max_retries, it
\* makes at most max_retries + 1 puts, every step of the call either returns
\* or takes it further along its at most 3 * (max_retries + 1) stages, so the
\* call returns, and it returns True or False.
C20_UploadTerminates ==
    [][/\ (Uploading \/ Returned) =>
            /\ attempt \in 0..config.max_retries
            /\ puts <= config.max_retries + 1
       /\ (~Uploading /\ Uploading') => (pc' = "put" /\ attempt' = 0 /\ puts' = 0)
       /\ Uploading => Progress <= 3 * config.max_retries + 2
       /\ (Uploading /\ ServiceStep) =>
            \/ Uploading' /\ Progress' > Progress
            \/ Returned' /\ result' \in BOOLEAN /\ cur \notin Range(in_flight')]_vars

\* a call has used all four attempts of max_retries = 3 and returned True
C20_Witness ==
    /\ Returned
    /\ config.max_retries = 3
    /\ attempt = 3
    /\ puts = 4
    /\ log = <<"head_client_error", "put_client_error", "head_client_error", "head_equal">>
    /\ result = TRUE

\* C21: when a sweep ends, a path it handed to upload_file whose entry is
\* younger than file_age_threshold (so an event has written the entry after
\* the sweep found the path ready) either keeps that entry or still has its
\* file on disk.
C21_EventDuringUploadKept ==
    [][(pc = "sweep_loop" /\ pc' = "loop_sleep") =>
          \A p \in Range(tasks) :
              (/\ InPending(pending_files, p)
               /\ now - Timestamp(pending_files, p) < config.file_age_threshold)
                 => \/ /\ InPending(pending_files', p)
                       /\ Timestamp(pending_files', p) = Timestamp(pending_files, p)
                    \/ disk'[p] # Absent]_vars

\* C22: whenever the caller of upload_file removes the local file after a
\* True result, the size of the file at that moment is the ContentLength the
\* call verified.
C22_DeletedSizeIsRemoteSize ==
    [][(/\ Returned
        /\ result
        /\ pc' # pc
        /\ disk[cur] # Absent
        /\ disk'[cur] = Absent) => disk[cur] = remote]_vars

\* C23: in a run with --upload-existing --continue-watching the listing of
\* the scan holds every video file that is in the directory when it is taken,
\* and every video file created after the listing was taken, while the
\* process runs, is entered into the registry by its create event.
C23_EveryFileDiscovered ==
    [][(args.upload_existing /\ args.continue_watching) =>
          \A p \in Paths :
              /\ (/\ pc = "scan" /\ pc' = "existing_loop"
                  /\ disk[p] # Absent /\ is_video_file(p))
                    => p \in Range(video_files')
              /\ (/\ pc \notin {"start", "scan", "exit"}
                  /\ is_video_file(p)
                  /\ disk[p] = Absent /\ disk'[p] # Absent)
                    => /\ InPending(pending_files', p)
                       /\ Timestamp(pending_files', p) = now]_vars

====
